---------------------------- MODULE Spec2Model ----------------------------
(***************************************************************************)
(* Pack planner: the pack accumulator (pack::add_partial_item) and the     *)
(* parallel pack strategy with its sequential fallback, in the C++ and the *)
(* C# implementation.                                                      *)
(*                                                                         *)
(* Weights are C++ doubles.  They are modelled as exact reals on a         *)
(* two-scale grid: a weight is [u, t] and stands for u*Unit + t*Tiny with  *)
(* Unit = 0.05 and Tiny = 1e-12, so that 0.1 is W(2, 0) and 1e-9 is        *)
(* W(0, 1000).  Every t that occurs is far below Unit/Tiny = 5e10, so the  *)
(* order of weights is the lexicographic order of (u, t).  Rounding of     *)
(* floating-point arithmetic is not modelled.                              *)
(***************************************************************************)
EXTENDS Integers, Sequences, FiniteSets, TLC

(***************************************************************************)
(* Integer helpers                                                         *)
(***************************************************************************)
Max(a, b) == IF a >= b THEN a ELSE b
Min(a, b) == IF a <= b THEN a ELSE b
Min3(a, b, c) == Min(a, Min(b, c))

\* INT_MAX of the 32-bit int that static_cast<int> produces.
IntMax == 2147483647
IntMin == -IntMax - 1

(***************************************************************************)
(* Weights (double)                                                        *)
(***************************************************************************)
W(u, t) == [u |-> u, t |-> t]
WZero == W(0, 0)
WAdd(a, b) == W(a.u + b.u, a.t + b.t)
WSub(a, b) == W(a.u - b.u, a.t - b.t)
WNeg(a) == W(-a.u, -a.t)
WMul(n, a) == W(n * a.u, n * a.t)
WLess(a, b) == a.u < b.u \/ (a.u = b.u /\ a.t < b.t)
WLeq(a, b) == a = b \/ WLess(a, b)
WMax(a, b) == IF WLess(a, b) THEN b ELSE a

\* floor(r / w) for r >= 0 and w > 0: by division for w a multiple of Unit and
\* for w a multiple of Tiny (a Tiny divisor only for |r| < Unit), else the k
\* with k*w <= r < (k+1)*w.
FloorQuot(r, w) ==
    IF w.t = 0
    THEN IF r.t >= 0 THEN r.u \div w.u ELSE (r.u - 1) \div w.u
    ELSE IF w.u = 0 THEN r.t \div w.t
    ELSE CHOOSE k \in 0..(r.u \div w.u + 1) :
             WLeq(WMul(k, w), r) /\ WLess(r, WMul(k + 1, w))

\* The quotient r / w does not fit an int: a divisor of a few Tiny under a
\* dividend of at least one Unit gives more than 5e10 - t > INT_MAX.
OutOfIntRange(r, w) == w.u = 0 /\ r.u # 0

\* What a build makes of static_cast<int>(x) for x outside the range of int
\* (undefined behaviour): cvttsd2si gives the "integer indefinite" INT_MIN,
\* a saturating conversion (fcvtzs) gives INT_MAX or INT_MIN by sign.
CastBuilds == {"indefinite", "saturate"}

\* static_cast<int>(r / w): truncation toward zero.
static_cast_int(r, w, build) ==
    IF OutOfIntRange(r, w)
    THEN IF build = "saturate" /\ r.u > 0 THEN IntMax ELSE IntMin
    ELSE IF WLess(r, WZero) THEN -FloorQuot(WNeg(r), w) ELSE FloorQuot(r, w)

(***************************************************************************)
(* pack                                                                    *)
(*                                                                         *)
(* The C# strategy calls Pack.AddPartialItem, Pack.IsEmpty and new Pack(n) *)
(* of a Pack class whose source is not part of the files modelled here;    *)
(* both languages use the C++ pack below.                                  *)
(***************************************************************************)
\* pack::pack(int pack_number)
new_pack(pack_number) ==
    [pack_number |-> pack_number, items |-> <<>>,
     total_items |-> 0, total_weight |-> WZero, max_length |-> 0]

is_empty(p) == p.items = <<>>

\* item(id, length, quantity, weight) as stored in m_items
item_record(id, length, quantity, weight) ==
    [id |-> id, length |-> length, quantity |-> quantity, weight |-> weight]

\* (mutant) the validation without the check of max_weight
rejects_input_no_weight_check(quantity, max_items, max_weight) ==
    quantity <= 0 \/ max_items <= 0

\* the input validation of add_partial_item
rejects_input(quantity, max_items, max_weight) ==
    quantity <= 0 \/ max_items <= 0 \/ WLess(max_weight, WZero)

max_by_items(p, max_items) == max_items - p.total_items

weight_remaining(p, max_weight) == WSub(max_weight, p.total_weight)

max_by_weight(p, quantity, weight, max_weight, build) ==
    IF weight = WZero
    THEN quantity
    ELSE static_cast_int(weight_remaining(p, max_weight), weight, build)

safe_max_by_weight(p, quantity, weight, max_weight, build) ==
    Max(0, max_by_weight(p, quantity, weight, max_weight, build))

\* (mutant) can_add without the weight limit
can_add_by_items_only(p, quantity, weight, max_items, max_weight, build) ==
    Min(max_by_items(p, max_items), quantity)

\* (mutant) can_add without the limit of the quantity asked for
can_add_ignoring_quantity(p, quantity, weight, max_items, max_weight, build) ==
    Min(max_by_items(p, max_items),
        safe_max_by_weight(p, quantity, weight, max_weight, build))

\* can_add, with length and weight already floored
can_add(p, quantity, weight, max_items, max_weight, build) ==
    Min3(max_by_items(p, max_items),
         safe_max_by_weight(p, quantity, weight, max_weight, build),
         quantity)

\* (mutant) m_max_length = length instead of the maximum
append_record_last_length(p, id, length, n, weight) ==
    [p EXCEPT !.items = Append(@, item_record(id, length, n, weight)),
              !.total_items = @ + n,
              !.total_weight = WAdd(@, WMul(n, weight)),
              !.max_length = length]

\* the body of "if (can_add > 0)"
append_record(p, id, length, n, weight) ==
    [p EXCEPT !.items = Append(@, item_record(id, length, n, weight)),
              !.total_items = @ + n,
              !.total_weight = WAdd(@, WMul(n, weight)),
              !.max_length = Max(@, length)]

\* int pack::add_partial_item(id, length, quantity, weight, max_items, max_weight):
\* the pack afterwards and the value returned.
add_partial_item(p, id, length, quantity, weight, max_items, max_weight, build) ==
    IF rejects_input(quantity, max_items, max_weight)
    THEN [pack |-> p, ret |-> 0]
    ELSE LET len == Max(1, length)
             w == WMax(WZero, weight)
             n == can_add(p, quantity, w, max_items, max_weight, build)
         IN  [pack |-> IF n > 0 THEN append_record(p, id, len, n, w) ELSE p,
              ret |-> n]

(***************************************************************************)
(* Program constants.  The thresholds and safety ceilings of the source    *)
(* are far out of reach of explicit-state checking; each is scaled down,   *)
(* keeping the shape of the formula it occurs in.  The source value is     *)
(* given with each.                                                        *)
(***************************************************************************)
\* std::max(0.1, max_weight): 0.1 is two Units
MinMaxWeightU == 2
\* items.size() < 5000 (source: 5000)
ParallelThreshold == 2
\* std::min(32u, ...) (source: 32)
MaxThreads == 2
\* sequential path: max_iterations (source: 1000000)
SeqMaxIterations == 10
\* worker_thread: max_iterations (source: 500000)
WorkerMaxIterations == 5
\* sequential path: min(100000, items.size() / 10 + 1000)
SeqReserveCap == 5
SeqReserveDiv == 2
SeqReserveBase == 3
\* worker_thread: min(20000, (end_idx - start_idx) / 10 + 500)
WorkerReserveCap == 3
WorkerReserveDiv == 2
WorkerReserveBase == 2
\* merge: min(200000, items.size() / 5 + 10000)
TotalPacksCap == 4
TotalPacksDiv == 2
TotalPacksBase == 2
\* a thread count above every clamp: what a negative int becomes as unsigned
HugeThreads == 40

(***************************************************************************)
(* Inputs                                                                  *)
(***************************************************************************)
\* longest item list given to pack_items
MaxLen == 3

\* [length, quantity, weight] of the input items: one that is skipped, a
\* light one that splits over packs (0.1 per unit), a very light one (1e-12
\* per unit) and one that fits no pack (0.4 per unit).
ItemKinds ==
    { [length |-> 1, quantity |-> 0, weight |-> W(2, 0)],
      [length |-> 2, quantity |-> 3, weight |-> W(2, 0)],
      [length |-> 3, quantity |-> 2, weight |-> W(0, 1)],
      [length |-> 4, quantity |-> 2, weight |-> W(8, 0)] }

\* the item list: item i has id i
ItemLists ==
    UNION { { [i \in 1..n |-> item_record(i, k[i].length, k[i].quantity, k[i].weight)] :
              k \in [1..n -> ItemKinds] } : n \in 0..MaxLen }

\* the constraints passed to pack_items: both below their floors (0 items,
\* 0.05), and 3 items with 0.25
InConstraints ==
    { [max_items |-> 0, max_weight |-> W(1, 0)],
      [max_items |-> 3, max_weight |-> W(5, 0)] }
\* constructor argument thread_count, and what the hardware reports
ThreadCounts == {-1, 0, 1, 2}
HardwareConcurrency == {0, 2}

Workers == 0..(MaxThreads - 1)

VARIABLES
    lang,               \* "cpp" | "cs": which implementation runs
    items,              \* pack_items argument
    in_max_items,       \* pack_items argument max_items, as passed
    in_max_weight,      \* pack_items argument max_weight, as passed
    m_num_threads,      \* parallel_pack_strategy::m_num_threads / _numThreads
    pc,                 \* where pack_items is: "call", "seq", "spawn", "join", "done"
    max_items,          \* pack_items' max_items after its own normalization
    max_weight,         \* pack_items' max_weight after its own normalization
    seq,                \* the fill loop of the sequential path
    next_pack_number,   \* std::atomic<int> next_pack_number
    result_packs,       \* the shared result vector / ConcurrentBag
    mutex,              \* result_mutex: -1 when free, else the worker holding it
    start_idx,          \* start_idx of the spawn loop
    workers,            \* per worker thread: its arguments, locals and position
    returned,           \* the list pack_items returned
    p,                  \* a pack driven directly through add_partial_item
    call,               \* the last add_partial_item call made on p
    ncalls              \* number of add_partial_item calls made on p

vars == <<lang, items, in_max_items, in_max_weight, m_num_threads, pc, max_items,
          max_weight, seq, next_pack_number, result_packs, mutex, start_idx,
          workers, returned, p, call, ncalls>>

input_vars == <<lang, items, in_max_items, in_max_weight>>
strategy_vars == <<m_num_threads, pc, max_items, max_weight, seq, next_pack_number,
                   result_packs, mutex, start_idx, workers, returned>>
pack_vars == <<p, call, ncalls>>

(***************************************************************************)
(* The fill loop (worker_thread, and the sequential path of pack_items)    *)
(***************************************************************************)
NoCall == [made |-> FALSE]

\* The locals of one fill loop.  i is the index of the for loop (0-based, as
\* in the source); remaining > 0 exactly inside the while loop.  call (the
\* last add_partial_item call of this loop), calls (the number of
\* add_partial_item calls made so far) and events (the early exits taken so
\* far) record history and are not read by the loop.
new_loop(first_i, first_pack_number) ==
    [packs |-> <<new_pack(first_pack_number)>>, i |-> first_i, remaining |-> 0,
     safety_counter |-> 0, pack_number |-> first_pack_number,
     call |-> NoCall, calls |-> 0, events |-> {}]

idle_loop ==
    [packs |-> <<>>, i |-> 0, remaining |-> 0, safety_counter |-> 0,
     pack_number |-> 0, call |-> NoCall, calls |-> 0, events |-> {}]

\* (mutant) max_items floored at 0 instead of 1
normalize_max_items_at_zero(mi) == Max(0, mi)

normalize_max_items(mi) == Max(1, mi)
normalize_max_weight(mw) == WMax(W(MinMaxWeightU, 0), mw)

\* (mutant) the remainder given up without leaving the item
next_item_same_index(L, event) ==
    [L EXCEPT !.remaining = 0, !.events = @ \cup event]

\* leaving the while loop with the item's remainder given up: on to the next item
next_item(L, event) ==
    [L EXCEPT !.i = @ + 1, !.remaining = 0, !.events = @ \cup event]

\* (mutant) the else branch without the test for an item that is too heavy
not_added_without_weight_test(L, it, mw, cap, number) ==
    IF is_empty(L.packs[Len(L.packs)]) THEN next_item(L, {"empty_pack"})
    ELSE IF Len(L.packs) >= cap THEN next_item(L, {"max_packs"})
    ELSE [L EXCEPT !.packs = Append(@, new_pack(number)), !.pack_number = number]

\* (mutant) the pack ceiling tested on the pack number instead of the number
\* of local packs
not_added_cap_on_number(L, it, mw, cap, number) ==
    IF WLess(mw, it.weight) THEN next_item(L, {"too_heavy"})
    ELSE IF is_empty(L.packs[Len(L.packs)]) THEN next_item(L, {"empty_pack"})
    ELSE IF number > cap THEN next_item(L, {"max_packs"})
    ELSE [L EXCEPT !.packs = Append(@, new_pack(number)), !.pack_number = number]

\* (mutant) the pack ceiling tested with > instead of >=
not_added_cap_off_by_one(L, it, mw, cap, number) ==
    IF WLess(mw, it.weight) THEN next_item(L, {"too_heavy"})
    ELSE IF is_empty(L.packs[Len(L.packs)]) THEN next_item(L, {"empty_pack"})
    ELSE IF Len(L.packs) > cap THEN next_item(L, {"max_packs"})
    ELSE [L EXCEPT !.packs = Append(@, new_pack(number)), !.pack_number = number]

\* (mutant) the else branch without the test for an empty current pack
not_added_without_empty_test(L, it, mw, cap, number) ==
    IF WLess(mw, it.weight) THEN next_item(L, {"too_heavy"})
    ELSE IF Len(L.packs) >= cap THEN next_item(L, {"max_packs"})
    ELSE [L EXCEPT !.packs = Append(@, new_pack(number)), !.pack_number = number]

\* the else branch of "if (added_quantity > 0)"
not_added(L, it, mw, cap, number) ==
    IF WLess(mw, it.weight) THEN next_item(L, {"too_heavy"})
    ELSE IF is_empty(L.packs[Len(L.packs)]) THEN next_item(L, {"empty_pack"})
    ELSE IF Len(L.packs) >= cap THEN next_item(L, {"max_packs"})
    ELSE [L EXCEPT !.packs = Append(@, new_pack(number)), !.pack_number = number]

\* (mutant) current_pack bound to the first local pack instead of the last
while_step_first_pack(L, it, mi, mw, max_iterations, cap, number, build) ==
    LET sc == L.safety_counter + 1
        r == add_partial_item(L.packs[1], it.id, it.length, L.remaining,
                              it.weight, mi, mw, build)
        C == [L EXCEPT !.safety_counter = sc, !.calls = @ + 1,
                       !.call = [made |-> TRUE, item |-> it.id, quantity |-> L.remaining,
                                 max_items |-> mi, max_weight |-> mw, ret |-> r.ret]]
    IN  IF sc > max_iterations
        THEN next_item([L EXCEPT !.safety_counter = sc], {"max_iterations"})
        ELSE IF r.ret > 0
        THEN IF L.remaining - r.ret > 0
             THEN [C EXCEPT !.packs[1] = r.pack, !.remaining = @ - r.ret]
             ELSE [C EXCEPT !.packs[1] = r.pack, !.remaining = 0, !.i = @ + 1]
        ELSE not_added(C, it, mw, cap, number)

\* (mutant) the ceiling tested with >= one too late
while_step_late_ceiling(L, it, mi, mw, max_iterations, cap, number, build) ==
    LET sc == L.safety_counter + 1
        last == Len(L.packs)
        r == add_partial_item(L.packs[last], it.id, it.length, L.remaining,
                              it.weight, mi, mw, build)
        C == [L EXCEPT !.safety_counter = sc, !.calls = @ + 1,
                       !.call = [made |-> TRUE, item |-> it.id, quantity |-> L.remaining,
                                 max_items |-> mi, max_weight |-> mw, ret |-> r.ret]]
    IN  IF sc > max_iterations + 1
        THEN next_item([L EXCEPT !.safety_counter = sc], {"max_iterations"})
        ELSE IF r.ret > 0
        THEN IF L.remaining - r.ret > 0
             THEN [C EXCEPT !.packs[last] = r.pack, !.remaining = @ - r.ret]
             ELSE [C EXCEPT !.packs[last] = r.pack, !.remaining = 0, !.i = @ + 1]
        ELSE not_added(C, it, mw, cap, number)

\* (mutant) the counter reset when the ceiling is passed
while_step_counter_reset(L, it, mi, mw, max_iterations, cap, number, build) ==
    LET sc == L.safety_counter + 1
        last == Len(L.packs)
        r == add_partial_item(L.packs[last], it.id, it.length, L.remaining,
                              it.weight, mi, mw, build)
        C == [L EXCEPT !.safety_counter = sc, !.calls = @ + 1,
                       !.call = [made |-> TRUE, item |-> it.id, quantity |-> L.remaining,
                                 max_items |-> mi, max_weight |-> mw, ret |-> r.ret]]
    IN  IF sc > max_iterations
        THEN next_item([L EXCEPT !.safety_counter = 0], {"max_iterations"})
        ELSE IF r.ret > 0
        THEN IF L.remaining - r.ret > 0
             THEN [C EXCEPT !.packs[last] = r.pack, !.remaining = @ - r.ret]
             ELSE [C EXCEPT !.packs[last] = r.pack, !.remaining = 0, !.i = @ + 1]
        ELSE not_added(C, it, mw, cap, number)

\* one iteration of the while loop; number is the pack number a new pack would get
while_step(L, it, mi, mw, max_iterations, cap, number, build) ==
    LET sc == L.safety_counter + 1
        last == Len(L.packs)
        r == add_partial_item(L.packs[last], it.id, it.length, L.remaining,
                              it.weight, mi, mw, build)
        C == [L EXCEPT !.safety_counter = sc, !.calls = @ + 1,
                       !.call = [made |-> TRUE, item |-> it.id, quantity |-> L.remaining,
                                 max_items |-> mi, max_weight |-> mw, ret |-> r.ret]]
    IN  IF sc > max_iterations
        THEN next_item([L EXCEPT !.safety_counter = sc], {"max_iterations"})
        ELSE IF r.ret > 0
        THEN IF L.remaining - r.ret > 0
             THEN [C EXCEPT !.packs[last] = r.pack, !.remaining = @ - r.ret]
             ELSE [C EXCEPT !.packs[last] = r.pack, !.remaining = 0, !.i = @ + 1]
        ELSE not_added(C, it, mw, cap, number)

\* one step of the fill loop, it being items[i]: at the head of the for loop the
\* item is skipped, or remaining_quantity is set and the first iteration of the
\* while loop runs; inside the while loop its next iteration runs
fill_step(L, it, mi, mw, max_iterations, cap, number, build) ==
    IF L.remaining > 0
    THEN while_step(L, it, mi, mw, max_iterations, cap, number, build)
    ELSE IF it.quantity <= 0
    THEN [L EXCEPT !.i = @ + 1]
    ELSE while_step([L EXCEPT !.remaining = it.quantity], it, mi, mw,
                    max_iterations, cap, number, build)

(***************************************************************************)
(* pack_items: constructor, sequential path                                *)
(***************************************************************************)
\* the constructor: m_num_threads / _numThreads after construction
constructor(language, thread_count, hardware) ==
    LET n == IF thread_count = 0 THEN hardware
             ELSE IF thread_count < 0 /\ language = "cpp" THEN HugeThreads
             ELSE thread_count
    IN  IF language = "cs" THEN Min(MaxThreads, Max(1, n)) ELSE n

\* (mutant) pack_number++ : the new pack gets the old number
post_increment(pack_number) == pack_number

\* ++pack_number of the sequential path
pre_increment(pack_number) == pack_number + 1

\* (mutant) an increment that is lost
fetch_add_lost(counter) == counter

\* next_pack_number.fetch_add(1) / lock { nextPackNumber++ }: the counter
\* afterwards (the caller gets the value before)
fetch_add(counter) == counter + 1

\* (mutant) the clamp without its lower bound
clamp_threads_upper_only(n) == Min(MaxThreads, n)

clamp_threads(n) == Min(MaxThreads, Max(1, n))

seq_max_safe_reserve == Min(SeqReserveCap, Len(items) \div SeqReserveDiv + SeqReserveBase)

worker_max_safe_reserve(start, end) ==
    Min(WorkerReserveCap, (end - start) \div WorkerReserveDiv + WorkerReserveBase)

max_total_packs == Min(TotalPacksCap, Len(items) \div TotalPacksDiv + TotalPacksBase)

\* (mutant) the fallback taken only when both conditions hold
uses_sequential_when_both(n_threads) == Len(items) < ParallelThreshold /\ n_threads = 1

uses_sequential(n_threads) == Len(items) < ParallelThreshold \/ n_threads = 1

idle_worker ==
    [pc |-> "idle", start_idx |-> 0, end_idx |-> 0, max_items |-> 0,
     max_weight |-> WZero, loop |-> idle_loop]

\* the state after construction, pack_items about to be called on one of the
\* item lists with one of the constraints
InitFrom(lists, constraints) ==
    /\ lang \in {"cpp", "cs"}
    /\ items \in lists
    /\ \E c \in constraints : in_max_items = c.max_items /\ in_max_weight = c.max_weight
    /\ \E tc \in ThreadCounts, hw \in HardwareConcurrency :
          m_num_threads = constructor(lang, tc, hw)
    /\ pc = "call"
    /\ max_items = in_max_items
    /\ max_weight = in_max_weight
    /\ seq = idle_loop
    /\ next_pack_number = 1
    /\ result_packs = <<>>
    /\ mutex = -1
    /\ start_idx = 0
    /\ workers = [w \in Workers |-> idle_worker]
    /\ returned = <<>>
    /\ p = new_pack(0)
    /\ call = NoCall
    /\ ncalls = 0

Init == InitFrom(ItemLists, InConstraints)

\* pack_items up to the choice of the path (C++: normalization and the clamp of
\* the thread count come first; C#: PackItemsSequential normalizes, PackItems
\* does not)
PackItemsCall ==
    /\ pc = "call"
    /\ LET n == IF lang = "cpp" THEN clamp_threads(m_num_threads) ELSE m_num_threads
           sequential == uses_sequential(n)
       IN  /\ m_num_threads' = n
           /\ IF lang = "cpp" \/ sequential
              THEN /\ max_items' = normalize_max_items(in_max_items)
                   /\ max_weight' = normalize_max_weight(in_max_weight)
              ELSE UNCHANGED <<max_items, max_weight>>
           /\ IF sequential
              THEN pc' = "seq" /\ seq' = new_loop(0, 1)
              ELSE pc' = "spawn" /\ seq' = seq
    /\ UNCHANGED <<input_vars, next_pack_number, result_packs, mutex, start_idx,
                   workers, returned, pack_vars>>

\* one step of the sequential loop
SeqStep ==
    /\ pc = "seq"
    /\ seq.i < Len(items)
    /\ \E build \in CastBuilds :
          seq' = fill_step(seq, items[seq.i + 1], max_items, max_weight,
                           SeqMaxIterations, seq_max_safe_reserve,
                           pre_increment(seq.pack_number), build)
    /\ UNCHANGED <<input_vars, m_num_threads, pc, max_items, max_weight,
                   next_pack_number, result_packs, mutex, start_idx, workers,
                   returned, pack_vars>>

\* return packs;
SeqReturn ==
    /\ pc = "seq"
    /\ seq.i = Len(items)
    /\ returned' = seq.packs
    /\ pc' = "done"
    /\ UNCHANGED <<input_vars, m_num_threads, max_items, max_weight, seq,
                   next_pack_number, result_packs, mutex, start_idx, workers,
                   pack_vars>>

(***************************************************************************)
(* pack_items: parallel path                                               *)
(***************************************************************************)
\* the threads created so far (the spawn loop's i)
spawned == Cardinality({w \in Workers : workers[w].pc # "idle"})

\* (mutant) the remainder given to the last threads instead of the first
SpawnRemainderLast ==
    /\ pc = "spawn"
    /\ LET i == spawned
           chunk_size == Len(items) \div m_num_threads
           remainder == Len(items) % m_num_threads
           thread_chunk_size ==
               chunk_size + (IF i >= m_num_threads - remainder THEN 1 ELSE 0)
           end_idx == start_idx + thread_chunk_size
       IN  /\ workers' = [workers EXCEPT ![i] =
                             [pc |-> "start", start_idx |-> start_idx, end_idx |-> end_idx,
                              max_items |-> max_items, max_weight |-> max_weight,
                              loop |-> idle_loop]]
           /\ start_idx' = end_idx
           /\ pc' = IF i + 1 < m_num_threads THEN "spawn" ELSE "join"
    /\ UNCHANGED <<input_vars, m_num_threads, max_items, max_weight, seq,
                   next_pack_number, result_packs, mutex, returned, pack_vars>>

\* one iteration of the spawn loop: thread i gets [start_idx, end_idx)
Spawn ==
    /\ pc = "spawn"
    /\ LET i == spawned
           chunk_size == Len(items) \div m_num_threads
           remainder == Len(items) % m_num_threads
           thread_chunk_size == chunk_size + (IF i < remainder THEN 1 ELSE 0)
           end_idx == start_idx + thread_chunk_size
       IN  /\ workers' = [workers EXCEPT ![i] =
                             [pc |-> "start", start_idx |-> start_idx, end_idx |-> end_idx,
                              max_items |-> max_items, max_weight |-> max_weight,
                              loop |-> idle_loop]]
           /\ start_idx' = end_idx
           /\ pc' = IF i + 1 < m_num_threads THEN "spawn" ELSE "join"
    /\ UNCHANGED <<input_vars, m_num_threads, max_items, max_weight, seq,
                   next_pack_number, result_packs, mutex, returned, pack_vars>>

\* worker_thread up to the for loop: normalization, the first pack number
WorkerStart(w) ==
    /\ workers[w].pc = "start"
    /\ workers' = [workers EXCEPT
                     ![w].pc = "fill",
                     ![w].max_items = normalize_max_items(@),
                     ![w].max_weight = normalize_max_weight(@),
                     ![w].loop = new_loop(workers[w].start_idx, next_pack_number)]
    /\ next_pack_number' = fetch_add(next_pack_number)
    /\ UNCHANGED <<input_vars, m_num_threads, pc, max_items, max_weight, seq,
                   result_packs, mutex, start_idx, returned, pack_vars>>

\* (mutant) a for loop that runs to the end of the item list instead of the
\* end of the chunk
WorkerStepPastChunk(w) ==
    /\ workers[w].pc = "fill"
    /\ workers[w].loop.i < Len(items)
    /\ \E build \in CastBuilds :
          LET me == workers[w]
              L == fill_step(me.loop, items[me.loop.i + 1], me.max_items,
                             me.max_weight, WorkerMaxIterations,
                             worker_max_safe_reserve(me.start_idx, me.end_idx),
                             next_pack_number, build)
          IN  /\ workers' = [workers EXCEPT ![w].loop = L]
              /\ next_pack_number' =
                    IF Len(L.packs) > Len(me.loop.packs)
                    THEN fetch_add(next_pack_number) ELSE next_pack_number
    /\ UNCHANGED <<input_vars, m_num_threads, pc, max_items, max_weight, seq,
                   result_packs, mutex, start_idx, returned, pack_vars>>

\* (mutant) a new pack numbered by the worker's own ++pack_number, as on the
\* sequential path, with the shared counter still advanced
WorkerStepOwnNumbers(w) ==
    /\ workers[w].pc = "fill"
    /\ workers[w].loop.i < workers[w].end_idx
    /\ \E build \in CastBuilds :
          LET me == workers[w]
              L == fill_step(me.loop, items[me.loop.i + 1], me.max_items,
                             me.max_weight, WorkerMaxIterations,
                             worker_max_safe_reserve(me.start_idx, me.end_idx),
                             pre_increment(me.loop.pack_number), build)
          IN  /\ workers' = [workers EXCEPT ![w].loop = L]
              /\ next_pack_number' =
                    IF Len(L.packs) > Len(me.loop.packs)
                    THEN fetch_add(next_pack_number) ELSE next_pack_number
    /\ UNCHANGED <<input_vars, m_num_threads, pc, max_items, max_weight, seq,
                   result_packs, mutex, start_idx, returned, pack_vars>>

\* one step of a worker's fill loop; a new pack takes its number by fetch_add
WorkerStep(w) ==
    /\ workers[w].pc = "fill"
    /\ workers[w].loop.i < workers[w].end_idx
    /\ \E build \in CastBuilds :
          LET me == workers[w]
              L == fill_step(me.loop, items[me.loop.i + 1], me.max_items,
                             me.max_weight, WorkerMaxIterations,
                             worker_max_safe_reserve(me.start_idx, me.end_idx),
                             next_pack_number, build)
          IN  /\ workers' = [workers EXCEPT ![w].loop = L]
              /\ next_pack_number' =
                    IF Len(L.packs) > Len(me.loop.packs)
                    THEN fetch_add(next_pack_number) ELSE next_pack_number
    /\ UNCHANGED <<input_vars, m_num_threads, pc, max_items, max_weight, seq,
                   result_packs, mutex, start_idx, returned, pack_vars>>

\* (mutant) a lock that is taken without waiting for its release
WorkerLockNoWait(w) ==
    /\ lang = "cpp"
    /\ workers[w].pc = "fill"
    /\ workers[w].loop.i = workers[w].end_idx
    /\ mutex' = w
    /\ workers' = [workers EXCEPT ![w].pc = "merge"]
    /\ UNCHANGED <<input_vars, m_num_threads, pc, max_items, max_weight, seq,
                   next_pack_number, result_packs, start_idx, returned, pack_vars>>

\* C++: std::lock_guard<std::mutex> lock(mutex), after the for loop
WorkerLock(w) ==
    /\ lang = "cpp"
    /\ workers[w].pc = "fill"
    /\ workers[w].loop.i = workers[w].end_idx
    /\ mutex = -1
    /\ mutex' = w
    /\ workers' = [workers EXCEPT ![w].pc = "merge"]
    /\ UNCHANGED <<input_vars, m_num_threads, pc, max_items, max_weight, seq,
                   next_pack_number, result_packs, start_idx, returned, pack_vars>>

\* (mutant) the merge assigns the local packs instead of appending them
merged_overwrites(result, local_packs) ==
    SubSeq(local_packs, 1, Min(Len(local_packs), max_total_packs))

\* (mutant) a merge that appends the local packs only when all of them fit
merged_all_or_nothing(result, local_packs) ==
    IF Len(result) + Len(local_packs) <= max_total_packs
    THEN result \o local_packs
    ELSE result

\* what the C++ merge appends to result
merged(result, local_packs) ==
    IF Len(result) < max_total_packs
    THEN result \o SubSeq(local_packs, 1,
                          Min(Len(local_packs), max_total_packs - Len(result)))
    ELSE result

\* C++: the insert under the lock, and the release of the lock
WorkerMerge(w) ==
    /\ workers[w].pc = "merge"
    /\ mutex = w
    /\ result_packs' = merged(result_packs, workers[w].loop.packs)
    /\ mutex' = -1
    /\ workers' = [workers EXCEPT ![w].pc = "done"]
    /\ UNCHANGED <<input_vars, m_num_threads, pc, max_items, max_weight, seq,
                   next_pack_number, start_idx, returned, pack_vars>>

\* what the C# foreach adds to the bag
bag_added(result, local_packs) ==
    result \o SubSeq(local_packs, 1, Min(Len(local_packs), max_total_packs))

\* C#: the foreach over localPacks adding to the ConcurrentBag (no lock; the
\* bag is unordered, so the adds of one worker are taken together)
WorkerAdd(w) ==
    /\ lang = "cs"
    /\ workers[w].pc = "fill"
    /\ workers[w].loop.i = workers[w].end_idx
    /\ result_packs' = bag_added(result_packs, workers[w].loop.packs)
    /\ workers' = [workers EXCEPT ![w].pc = "done"]
    /\ UNCHANGED <<input_vars, m_num_threads, pc, max_items, max_weight, seq,
                   next_pack_number, mutex, start_idx, returned, pack_vars>>

\* finalPacks.Sort((a, b) => a.PackNumber.CompareTo(b.PackNumber))
RECURSIVE insert_sorted(_, _)
insert_sorted(s, x) ==
    IF s = <<>> THEN <<x>>
    ELSE IF x.pack_number < Head(s).pack_number THEN <<x>> \o s
    ELSE <<Head(s)>> \o insert_sorted(Tail(s), x)

RECURSIVE sort_by_pack_number(_)
sort_by_pack_number(s) ==
    IF s = <<>> THEN <<>>
    ELSE insert_sorted(sort_by_pack_number(SubSeq(s, 1, Len(s) - 1)), s[Len(s)])

\* (mutant) a join loop that waits for the first thread only
JoinFirstOnly ==
    /\ pc = "join"
    /\ workers[0].pc = "done"
    /\ returned' = IF lang = "cs" THEN sort_by_pack_number(result_packs) ELSE result_packs
    /\ pc' = "done"
    /\ UNCHANGED <<input_vars, m_num_threads, max_items, max_weight, seq,
                   next_pack_number, result_packs, mutex, start_idx, workers,
                   pack_vars>>

\* thread.join() for every thread / Task.WaitAll, and the return
Join ==
    /\ pc = "join"
    /\ \A w \in Workers : w < m_num_threads => workers[w].pc = "done"
    /\ returned' = IF lang = "cs" THEN sort_by_pack_number(result_packs) ELSE result_packs
    /\ pc' = "done"
    /\ UNCHANGED <<input_vars, m_num_threads, max_items, max_weight, seq,
                   next_pack_number, result_packs, mutex, start_idx, workers,
                   pack_vars>>

Next ==
    \/ PackItemsCall
    \/ SeqStep
    \/ SeqReturn
    \/ Spawn
    \/ \E w \in Workers : WorkerStart(w)
    \/ \E w \in Workers : WorkerStep(w)
    \/ \E w \in Workers : WorkerLock(w)
    \/ \E w \in Workers : WorkerMerge(w)
    \/ \E w \in Workers : WorkerAdd(w)
    \/ Join

Spec == Init /\ [][Next]_vars

(***************************************************************************)
(* pack_items on lists in which an item that all but fills a pack by       *)
(* weight (0.25 - 1e-10 per unit) comes next to the very light one         *)
(***************************************************************************)
\* longest such list
NearLen == 2

NearKinds ==
    { [length |-> 5, quantity |-> 1, weight |-> W(5, -100)],
      [length |-> 3, quantity |-> 2, weight |-> W(0, 1)] }

NearItemLists ==
    UNION { { [i \in 1..n |-> item_record(i, k[i].length, k[i].quantity, k[i].weight)] :
              k \in [1..n -> NearKinds] } : n \in 0..NearLen }

\* 3 items, 0.25
NearConstraints == { [max_items |-> 3, max_weight |-> W(5, 0)] }

InitNear == InitFrom(NearItemLists, NearConstraints)

SpecNear == InitNear /\ [][Next]_vars

(***************************************************************************)
(* Lists long enough for the sequential path to reach its iteration        *)
(* ceiling: up to CeilLen items, each one that splits over packs or one    *)
(* of negative quantity, under constraints that put one unit in a pack.    *)
(***************************************************************************)
CeilLen == 5

CeilKinds ==
    { [length |-> 2, quantity |-> 3, weight |-> W(2, 0)],
      [length |-> 1, quantity |-> -1, weight |-> W(2, 0)] }

CeilItemLists ==
    UNION { { [i \in 1..n |-> item_record(i, k[i].length, k[i].quantity, k[i].weight)] :
              k \in [1..n -> CeilKinds] } : n \in 0..CeilLen }

CeilConstraints == { [max_items |-> 0, max_weight |-> W(1, 0)] }

InitCeil == InitFrom(CeilItemLists, CeilConstraints)

SpecCeil == InitCeil /\ [][Next]_vars

(***************************************************************************)
(* A single pack under arbitrary add_partial_item calls                    *)
(***************************************************************************)
\* number of calls made on the pack
MaxCalls == 2

CallLengths == {0, 3}
CallQuantities == {0, 1, 3}
\* -0.05, 0, 1e-12, 0.1
CallWeights == {W(-1, 0), WZero, W(0, 1), W(2, 0)}
CallMaxItems == {0, 2, 4}
\* -0.05, 0.1, 0.25
CallMaxWeights == {W(-1, 0), W(2, 0), W(5, 0)}

InitPack ==
    /\ lang = "cpp"
    /\ items = <<>>
    /\ in_max_items = 0
    /\ in_max_weight = WZero
    /\ m_num_threads = 1
    /\ pc = "pack"
    /\ max_items = 0
    /\ max_weight = WZero
    /\ seq = idle_loop
    /\ next_pack_number = 1
    /\ result_packs = <<>>
    /\ mutex = -1
    /\ start_idx = 0
    /\ workers = [w \in Workers |-> idle_worker]
    /\ returned = <<>>
    /\ p = new_pack(1)
    /\ call = NoCall
    /\ ncalls = 0

\* p.add_partial_item(id, length, quantity, weight, max_items, max_weight)
AddPartialItem ==
    /\ ncalls < MaxCalls
    /\ \E length \in CallLengths, quantity \in CallQuantities, weight \in CallWeights,
          mi \in CallMaxItems, mw \in CallMaxWeights, build \in CastBuilds :
          LET id == ncalls + 1
              r == add_partial_item(p, id, length, quantity, weight, mi, mw, build)
          IN  /\ p' = r.pack
              /\ call' = [made |-> TRUE, id |-> id, length |-> length,
                          quantity |-> quantity, weight |-> weight, max_items |-> mi,
                          max_weight |-> mw, before |-> p, ret |-> r.ret]
    /\ ncalls' = ncalls + 1
    /\ UNCHANGED <<input_vars, strategy_vars>>

NextPack == AddPartialItem

SpecPack == InitPack /\ [][NextPack]_vars

(***************************************************************************)
(* A pack driven through add_item and add_partial_item.  The item class is *)
(* not part of the files modelled here: an item is an (id, length,         *)
(* quantity, weight) value with length >= 1 and weight >= 0, any integer   *)
(* quantity, and total_weight = quantity * weight.                         *)
(***************************************************************************)
ItemLengths == {1, 3}
ItemQuantities == {-1, 0, 1, 3}
\* 0, 0.1
ItemWeights == {WZero, W(2, 0)}

\* item::get_total_weight()
get_total_weight(it) == WMul(it.quantity, it.weight)

\* bool pack::add_item(item, max_items, max_weight): the pack afterwards and
\* the value returned
add_item(pk, it, mi, mw) ==
    LET new_quantity == pk.total_items + it.quantity
        new_weight == WAdd(pk.total_weight, get_total_weight(it))
    IN  IF new_quantity <= mi /\ WLeq(new_weight, mw)
        THEN [pack |-> [pk EXCEPT !.items = Append(@, it),
                                  !.total_items = new_quantity,
                                  !.total_weight = new_weight,
                                  !.max_length = Max(@, it.length)],
              ret |-> TRUE]
        ELSE [pack |-> pk, ret |-> FALSE]

\* p.add_item(item, max_items, max_weight)
AddItem ==
    /\ ncalls < MaxCalls
    /\ \E length \in ItemLengths, quantity \in ItemQuantities, weight \in ItemWeights,
          mi \in CallMaxItems, mw \in CallMaxWeights :
          LET it == item_record(ncalls + 1, length, quantity, weight)
              r == add_item(p, it, mi, mw)
          IN  /\ p' = r.pack
              /\ call' = [made |-> TRUE, item |-> it, max_items |-> mi,
                          max_weight |-> mw, before |-> p, ret |-> r.ret]
    /\ ncalls' = ncalls + 1
    /\ UNCHANGED <<input_vars, strategy_vars>>

NextPackBoth == AddPartialItem \/ AddItem

SpecPackBoth == InitPack /\ [][NextPackBoth]_vars

(***************************************************************************)
(* Properties of add_partial_item (checked under SpecPack)                 *)
(***************************************************************************)
RECURSIVE SumQuantity(_)
SumQuantity(records) ==
    IF records = <<>> THEN 0 ELSE Head(records).quantity + SumQuantity(Tail(records))

RECURSIVE SumWeight(_)
SumWeight(records) ==
    IF records = <<>> THEN WZero
    ELSE WAdd(WMul(Head(records).quantity, Head(records).weight), SumWeight(Tail(records)))

RECURSIVE MaxLength(_)
MaxLength(records) ==
    IF records = <<>> THEN 0 ELSE Max(Head(records).length, MaxLength(Tail(records)))

\* the last call was turned away by the defensive preconditions
CallRejected ==
    call.quantity <= 0 \/ call.max_items <= 0 \/ WLess(call.max_weight, WZero)

\* the unit weight of the last call, floored to 0
CallUnitWeight == IF WLess(call.weight, WZero) THEN WZero ELSE call.weight

RoomByCount == call.max_items - call.before.total_items

\* min(requested, room_by_weight) of the last call, with room_by_weight =
\* requested for a unit weight of 0 and max(0, floor((max_weight - total_weight)
\* / unit_weight)) otherwise; where the quotient is beyond every int the
\* minimum is the requested quantity.
RoomByWeight ==
    LET r == WSub(call.max_weight, call.before.total_weight)
    IN  IF CallUnitWeight = WZero THEN call.quantity
        ELSE IF WLess(r, WZero) THEN 0
        ELSE IF CallUnitWeight.u = 0 /\ r.u > 0 THEN call.quantity
        ELSE Min(call.quantity, FloorQuot(r, CallUnitWeight))

\* C7: a call that passes the preconditions accepts min(room_by_count,
\* room_by_weight, requested).
C7_AcceptedIsMinOfRooms ==
    (call.made /\ ~CallRejected) =>
        call.ret = Min3(RoomByCount, RoomByWeight, call.quantity)

\* C8: a call with requested_quantity <= 0, max_items <= 0 or max_weight < 0
\* returns 0 and leaves the pack as it was.
C8_RejectedCallChangesNothing ==
    (call.made /\ CallRejected) => (call.ret = 0 /\ p = call.before)

\* a rejected call on a pack that already holds a record
C8_Witness ==
    call.made /\ CallRejected /\ call.before.items # <<>> /\ call.quantity > 0

\* C9: the value returned is the accepted quantity: between 0 and the requested
\* quantity, the quantity of the record the call appended, and 0 exactly when
\* the pack is unchanged.
C9_ReturnIsAcceptedQuantity ==
    call.made =>
        /\ 0 <= call.ret
        /\ call.ret <= Max(0, call.quantity)
        /\ (call.ret = 0) <=> (p = call.before)
        /\ call.ret # 0 =>
              /\ Len(p.items) = Len(call.before.items) + 1
              /\ p.items[Len(p.items)].quantity = call.ret

\* C10: the aggregates are the sums and the maximum over the records; a call
\* accepting q > 0 appends one record of quantity q and updates the three
\* aggregates, a call accepting nothing changes nothing.
C10_AggregateConsistency ==
    /\ p.total_items = SumQuantity(p.items)
    /\ p.total_weight = SumWeight(p.items)
    /\ p.max_length = MaxLength(p.items)
    /\ call.made =>
          IF call.ret > 0
          THEN LET last == p.items[Len(p.items)]
               IN  /\ p.items = Append(call.before.items, last)
                   /\ last.quantity = call.ret
                   /\ last.id = call.id
                   /\ p.total_items = call.before.total_items + call.ret
                   /\ p.total_weight =
                         WAdd(call.before.total_weight, WMul(call.ret, last.weight))
                   /\ p.max_length = Max(call.before.max_length, last.length)
          ELSE p = call.before

\* two records of different lengths, the longer one first
C10_Witness ==
    /\ Len(p.items) = 2
    /\ p.items[1].length > p.items[2].length
    /\ call.made /\ call.ret > 0

(***************************************************************************)
(* Properties of pack_items (checked under Spec)                           *)
(***************************************************************************)
\* the constraints as the specification normalizes them: max(1, max_items)
\* and max(0.1, max_weight)
OneTenth == W(2, 0)
NormMaxItems == IF in_max_items < 1 THEN 1 ELSE in_max_items
NormMaxWeight == IF WLess(in_max_weight, OneTenth) THEN OneTenth ELSE in_max_weight

\* 1e-9
EpsilonTiny == 1000
Epsilon == W(0, EpsilonTiny)

SeqOf(s) == {s[i] : i \in 1..Len(s)}

\* every fill loop that has started
Loops == {L \in {seq} \cup {workers[w].loop : w \in Workers} : L.packs # <<>>}

\* every pack there is: local to a loop, merged, returned
AllPacks ==
    UNION {SeqOf(L.packs) : L \in Loops} \cup SeqOf(result_packs) \cup SeqOf(returned)

TookSequentialPath == seq.packs # <<>>
TookParallelPath == pc \in {"join", "done"} /\ seq.packs = <<>>

RECURSIVE QuantityOfIn(_, _)
\* the quantity the records of item id have in a sequence of records
QuantityOfIn(id, records) ==
    IF records = <<>> THEN 0
    ELSE (IF Head(records).id = id THEN Head(records).quantity ELSE 0)
         + QuantityOfIn(id, Tail(records))

RECURSIVE PackedQuantity(_, _)
\* the quantity of item id over a list of packs
PackedQuantity(id, packs) ==
    IF packs = <<>> THEN 0
    ELSE QuantityOfIn(id, Head(packs).items) + PackedQuantity(id, Tail(packs))

RECURSIVE PacksCreated(_)
\* the number of packs the workers of a set created
PacksCreated(ws) ==
    IF ws = {} THEN 0
    ELSE LET w == CHOOSE x \in ws : TRUE
         IN  Len(workers[w].loop.packs) + PacksCreated(ws \ {w})

\* a safety ceiling cut the run: the iteration ceiling or the pack ceiling of a
\* loop, or the cap on the merged list
CeilingHit ==
    \/ \E L \in Loops : L.events \cap {"max_iterations", "max_packs"} # {}
    \/ TookParallelPath /\ pc = "done" /\ Len(returned) < PacksCreated(Workers)

\* C1: every pack holds at most max_items units and at most max_weight + 1e-9,
\* with the normalized constraints: in the returned list, and in every loop
\* after each accept.
C1_CapacityInvariant ==
    \A pk \in AllPacks :
        /\ pk.total_items <= NormMaxItems
        /\ WLeq(pk.total_weight, WAdd(NormMaxWeight, Epsilon))

\* the parallel path returned a pack that is full by count and a pack that
\* has no room left for a unit of 0.1
C1_Witness ==
    /\ pc = "done" /\ TookParallelPath
    /\ \E pk \in SeqOf(returned) : pk.total_items = NormMaxItems /\ pk.total_items > 1
    /\ \E pk \in SeqOf(returned) :
          WLess(WSub(NormMaxWeight, pk.total_weight), OneTenth) /\ pk.total_items > 1

\* C2: without a ceiling hit, every item with quantity > 0 and unit weight <=
\* max_weight has its whole quantity in the returned packs.
C2_Conservation ==
    (pc = "done" /\ ~CeilingHit) =>
        \A i \in 1..Len(items) :
            (items[i].quantity > 0 /\ WLeq(items[i].weight, NormMaxWeight)) =>
                PackedQuantity(items[i].id, returned) = items[i].quantity

\* C3: no two packs of the returned list (nor of the shared result) have the
\* same pack_number.
C3_UniquePackNumbers ==
    /\ \A i, j \in 1..Len(returned) :
          i # j => returned[i].pack_number # returned[j].pack_number
    /\ \A i, j \in 1..Len(result_packs) :
          i # j => result_packs[i].pack_number # result_packs[j].pack_number

\* the parallel path returned packs whose numbers the two workers took in turns
C3_Witness ==
    /\ pc = "done" /\ TookParallelPath
    /\ Len(returned) >= 4
    /\ \E w \in Workers :
          /\ Len(workers[w].loop.packs) >= 2
          /\ workers[w].loop.packs[2].pack_number > workers[w].loop.packs[1].pack_number + 1

\* C4: on the sequential path the i-th pack created, and returned, has number i.
C4_SequentialNumbering ==
    /\ \A i \in 1..Len(seq.packs) : seq.packs[i].pack_number = i
    /\ (pc = "done" /\ TookSequentialPath) => returned = seq.packs

\* the sequential path returned three packs or more
C4_Witness == pc = "done" /\ TookSequentialPath /\ Len(returned) >= 3

\* the item a loop is at is too heavy for any pack
AtHeavyItem(L) ==
    /\ L.i < Len(items)
    /\ items[L.i + 1].quantity > 0
    /\ WLess(NormMaxWeight, items[L.i + 1].weight)

\* a loop at a heavy item, if it moves, leaves its packs alone and goes on
HeavyItemStep(L, L2) ==
    (L.packs # <<>> /\ L2 # L /\ AtHeavyItem(L)) =>
        (L2.packs = L.packs /\ L2.i = L.i + 1 /\ L2.remaining = 0)

\* no pack holds a record of an item that is too heavy
NoHeavyRecord ==
    \A pk \in AllPacks : \A r \in SeqOf(pk.items) :
        ~WLess(NormMaxWeight, items[r.id].weight)

\* C5: an item heavier than max_weight adds no record, opens no pack, leaves
\* every pack unchanged, and the loop goes on with the next item.
C5_UnpackableItemPolicy ==
    [][/\ HeavyItemStep(seq, seq')
       /\ \A w \in Workers : HeavyItemStep(workers[w].loop, workers'[w].loop)
       /\ NoHeavyRecord']_vars

\* a heavy item was dropped between two items that were packed
C5_Witness ==
    /\ pc = "done"
    /\ \E L \in Loops : "too_heavy" \in L.events
    /\ \E i \in 2..Len(items) :
          /\ WLess(NormMaxWeight, items[i].weight)
          /\ PackedQuantity(i - 1, returned) > 0
          /\ i < Len(items) /\ PackedQuantity(i + 1, returned) > 0

RECURSIVE SeqResults(_, _, _)
\* the pack lists the sequential algorithm can end with from loop state L
SeqResults(L, mi, mw) ==
    IF L.i >= Len(items) THEN {L.packs}
    ELSE UNION { SeqResults(L2, mi, mw) :
                 L2 \in { fill_step(L, items[L.i + 1], mi, mw, SeqMaxIterations,
                                    seq_max_safe_reserve, L.pack_number + 1, b) :
                          b \in CastBuilds } }

\* C6: every accept call gets max_items >= 1 and max_weight >= 0.1, namely
\* max(1, max_items) and max(0.1, max_weight) of the values passed to
\* pack_items; the sequential path returns what the algorithm returns when it
\* is given these values.
C6_ConstraintNormalization ==
    /\ \A L \in Loops :
          L.call.made =>
             /\ L.call.max_items >= 1
             /\ WLeq(OneTenth, L.call.max_weight)
             /\ L.call.max_items = NormMaxItems
             /\ L.call.max_weight = NormMaxWeight
    /\ (pc = "done" /\ TookSequentialPath) =>
          returned \in SeqResults(new_loop(0, 1), NormMaxItems, NormMaxWeight)

\* both constraints were passed below their floors and the sequential path
\* returned two packs with records
C6_Witness ==
    /\ in_max_items < 1 /\ WLess(in_max_weight, OneTenth)
    /\ pc = "done" /\ TookSequentialPath
    /\ Len(returned) >= 2 /\ returned[2].items # <<>>

\* a step of a worker thread
WorkerMoves ==
    \E w \in Workers :
        WorkerStart(w) \/ WorkerStep(w) \/ WorkerLock(w) \/ WorkerMerge(w) \/ WorkerAdd(w)

\* C11: when the parallel path has returned, every worker has finished its fill
\* loop and its merge, the lock is free, no worker has a step left to take, and
\* the returned list holds the packs of the shared result as the workers left
\* it, the counter standing at one more than the packs created.
C11_ReturnAfterAllWorkers ==
    (pc = "done" /\ TookParallelPath) =>
        /\ \A w \in Workers :
              /\ workers[w].pc = (IF w < m_num_threads THEN "done" ELSE "idle")
              /\ w < m_num_threads => workers[w].loop.i = workers[w].end_idx
        /\ mutex = -1
        /\ ~ENABLED WorkerMoves
        /\ SeqOf(returned) = SeqOf(result_packs) /\ Len(returned) = Len(result_packs)
        /\ next_pack_number = 1 + PacksCreated(Workers)

\* the parallel path returned after the second worker merged first
C11_Witness ==
    /\ pc = "done" /\ TookParallelPath /\ lang = "cpp"
    /\ Len(result_packs) >= 2
    /\ result_packs[1] = workers[1].loop.packs[1]
    /\ Len(workers[0].loop.packs) >= 2

\* the packs the workers created, as they stand in the local lists
CreatedPacks == UNION {SeqOf(workers[w].loop.packs) : w \in Workers}

\* C12 as stated: the returned list of the parallel path holds every pack of
\* every local list exactly once, as its worker left it.
C12_ResultIsUnion ==
    (pc = "done" /\ TookParallelPath) =>
        /\ SeqOf(returned) = CreatedPacks
        /\ Len(returned) = Cardinality(CreatedPacks)

\* C12 (amended): every returned pack is a pack of a local list, as its worker
\* left it, and is returned once; every pack of every local list is returned
\* when the workers created no more packs than the cap on the merged list
\* (max_total_packs) allows.
C12_ResultIsUnionUnderCap ==
    (pc = "done" /\ TookParallelPath) =>
        /\ SeqOf(returned) \subseteq CreatedPacks
        /\ Len(returned) = Cardinality(SeqOf(returned))
        /\ PacksCreated(Workers) <= max_total_packs =>
              /\ SeqOf(returned) = CreatedPacks
              /\ Len(returned) = PacksCreated(Workers)

\* both workers created packs, as many as the cap allows, and all are returned
C12_Witness ==
    /\ pc = "done" /\ TookParallelPath
    /\ PacksCreated(Workers) = max_total_packs
    /\ Len(returned) = max_total_packs
    /\ \A w \in Workers : workers[w].loop.packs # <<>>
    /\ \E w \in Workers : Len(workers[w].loop.packs) >= 2

RECURSIVE FillRuns(_, _, _, _, _, _)
\* the states in which the fill loop can end when it runs alone from state L
\* over the items up to index last, numbering its packs by itself
FillRuns(L, last, mi, mw, max_iterations, cap) ==
    IF L.i >= last THEN {L}
    ELSE UNION { FillRuns(L2, last, mi, mw, max_iterations, cap) :
                 L2 \in { fill_step(L, items[L.i + 1], mi, mw, max_iterations, cap,
                                    L.pack_number + 1, b) : b \in CastBuilds } }

\* a pack without its number
ContentOf(pk) ==
    [items |-> pk.items, total_items |-> pk.total_items,
     total_weight |-> pk.total_weight, max_length |-> pk.max_length]

\* the contents of a list of packs, in order
Contents(packs) == [k \in 1..Len(packs) |-> ContentOf(packs[k])]

\* what a worker's local list can hold when its chunk is packed alone
ChunkContents(w) ==
    { Contents(R.packs) :
      R \in FillRuns(new_loop(workers[w].start_idx, 0), workers[w].end_idx,
                     NormMaxItems, NormMaxWeight, WorkerMaxIterations,
                     worker_max_safe_reserve(workers[w].start_idx, workers[w].end_idx)) }

\* how many packs of a list have content c
CountOf(c, packs) == Cardinality({k \in 1..Len(packs) : ContentOf(packs[k]) = c})

RECURSIVE CountCreated(_, _)
\* how many packs of the local lists of a set of workers have content c
CountCreated(c, ws) ==
    IF ws = {} THEN 0
    ELSE LET w == CHOOSE x \in ws : TRUE
         IN  CountOf(c, workers[w].loop.packs) + CountCreated(c, ws \ {w})

\* the returned list and the local lists hold the same multiset of contents
SameContents ==
    \A c \in {ContentOf(pk) : pk \in SeqOf(returned) \cup CreatedPacks} :
        CountOf(c, returned) = CountCreated(c, Workers)

\* the local list of each worker holds what its chunk gives when packed alone,
\* whatever the other workers did meanwhile
LocalListsStable ==
    \A w \in Workers :
        w < m_num_threads => Contents(workers[w].loop.packs) \in ChunkContents(w)

\* C13 as stated: whatever the interleaving, the returned packs, numbers and
\* order apart, are the packs the chunks give when each is packed alone.
C13_StableAcrossInterleavings ==
    (pc = "done" /\ TookParallelPath) => (LocalListsStable /\ SameContents)

\* C13 (amended): whatever the interleaving, each local list is what its chunk
\* gives when packed alone, and the returned packs, numbers and order apart,
\* are those of the local lists when the workers created no more packs than
\* the cap on the merged list allows.
C13_StableUnderCap ==
    (pc = "done" /\ TookParallelPath) =>
        /\ LocalListsStable
        /\ PacksCreated(Workers) <= max_total_packs => SameContents

\* the packs of the two workers were numbered in turns and merged in the order
\* opposite to the chunks
C13_Witness ==
    /\ pc = "done" /\ TookParallelPath
    /\ PacksCreated(Workers) <= max_total_packs
    /\ Len(workers[0].loop.packs) >= 2
    /\ workers[0].loop.packs[2].pack_number > workers[1].loop.packs[1].pack_number
    /\ workers[1].loop.packs[1].pack_number > workers[0].loop.packs[1].pack_number
    /\ returned[1] = workers[1].loop.packs[1]
    /\ workers[1].loop.packs[1].items # <<>>

\* the runs of the sequential algorithm on the whole item list
SeqRuns ==
    FillRuns(new_loop(0, 1), Len(items), NormMaxItems, NormMaxWeight,
             SeqMaxIterations, seq_max_safe_reserve)

\* those in which no safety ceiling cut the run
SeqRunsNoCeiling ==
    {R \in SeqRuns : R.events \cap {"max_iterations", "max_packs"} = {}}

\* C14, the safety ceilings apart: when no ceiling cut the parallel run, each
\* item has in the returned packs the quantity it has in the packs of the
\* sequential algorithm run on the same input.
C14_SameQuantityAsSequential ==
    (pc = "done" /\ TookParallelPath /\ ~CeilingHit /\ SeqRunsNoCeiling # {}) =>
        \E R \in SeqRunsNoCeiling :
            \A i \in 1..Len(items) :
                PackedQuantity(i, returned) = PackedQuantity(i, R.packs)

RECURSIVE SequentialStrategyFrom(_, _, _, _, _, _)
\* The sequential strategy as its description gives it (the strategy itself is
\* not among the sources modelled here): the pack lists it can return from
\* the point where packs is the result list so far, k the item the loop is at,
\* remaining what is left of that item (0: not begun) and counter the
\* iterations made.  accept is add_partial_item of the pack; the iteration
\* ceiling and the pack ceiling are those of the fallback.
SequentialStrategyFrom(packs, k, remaining, counter, mi, mw) ==
    IF k > Len(items) THEN {packs}
    ELSE IF remaining = 0 /\ items[k].quantity <= 0
    THEN SequentialStrategyFrom(packs, k + 1, 0, counter, mi, mw)
    ELSE IF counter + 1 > SeqMaxIterations
    THEN SequentialStrategyFrom(packs, k + 1, 0, counter + 1, mi, mw)
    ELSE LET it == items[k]
             want == IF remaining = 0 THEN it.quantity ELSE remaining
             current == packs[Len(packs)]
             after(b) ==
                 LET a == add_partial_item(current, it.id, it.length, want, it.weight,
                                           mi, mw, b)
                 IN  IF a.ret > 0
                     THEN SequentialStrategyFrom(
                              [packs EXCEPT ![Len(packs)] = a.pack],
                              IF want > a.ret THEN k ELSE k + 1, want - a.ret,
                              counter + 1, mi, mw)
                     ELSE IF WLess(mw, it.weight) \/ current.items = <<>>
                              \/ Len(packs) >= seq_max_safe_reserve
                     THEN SequentialStrategyFrom(packs, k + 1, 0, counter + 1, mi, mw)
                     ELSE SequentialStrategyFrom(
                              Append(packs, new_pack(Len(packs) + 1)), k, want,
                              counter + 1, mi, mw)
         IN  UNION {after(b) : b \in CastBuilds}

\* steps 1 and 2: the constraints normalized, pack #1 the current pack
SequentialStrategy ==
    SequentialStrategyFrom(<<new_pack(1)>>, 1, 0, 0, NormMaxItems, NormMaxWeight)

FillProgress(L, L2) ==
    (L.packs # <<>> /\ L2 # L) =>
        \/ L2.i > L.i
        \/ Len(L2.packs) > Len(L.packs)
        \/ L2.packs[Len(L2.packs)].total_items > L.packs[Len(L.packs)].total_items

\* what is left of a fill loop over the items up to index last: the iterations
\* the counter still allows (it passes the ceiling once per item at most) and
\* the items not yet left
LoopRank(L, last, max_iterations) ==
    (max_iterations + Len(items) + 1 - L.safety_counter) + (last - L.i)

\* the rank of a loop that has not begun
FreshRank(max_iterations) == max_iterations + 2 * Len(items) + 1

\* what is left of a worker thread
WorkerRank(w) ==
    CASE workers[w].pc \in {"idle", "start"} -> FreshRank(WorkerMaxIterations) + 3
      [] workers[w].pc = "fill" ->
            LoopRank(workers[w].loop, workers[w].end_idx, WorkerMaxIterations) + 2
      [] workers[w].pc = "merge" -> 1
      [] workers[w].pc = "done" -> 0

RECURSIVE WorkersRank(_)
WorkersRank(ws) ==
    IF ws = {} THEN 0
    ELSE LET w == CHOOSE x \in ws : TRUE IN WorkerRank(w) + WorkersRank(ws \ {w})

\* what is left of the calling thread
CallerRank ==
    CASE pc = "call" -> MaxThreads + 3
      [] pc = "spawn" -> (MaxThreads - spawned) + 2
      [] pc \in {"seq", "join"} -> 1
      [] pc = "done" -> 0

\* a measure of what is left of the whole call
Rank ==
    CallerRank + WorkersRank(Workers)
    + (IF seq.packs = <<>> THEN FreshRank(SeqMaxIterations)
       ELSE LoopRank(seq, Len(items), SeqMaxIterations))

\* some thread has a step to take: the guard of one of the actions holds (the
\* calling thread before the join, in its loop, or at a join that every thread
\* has reached; a worker before or inside its loop, at the lock when it is
\* free or at the unlocked add, or holding the lock)
CanStep ==
    \/ pc \in {"call", "spawn"}
    \/ pc = "seq" /\ seq.i <= Len(items)
    \/ pc = "join" /\ \A w \in Workers : w < m_num_threads => workers[w].pc = "done"
    \/ \E w \in Workers :
          \/ workers[w].pc = "start"
          \/ workers[w].pc = "fill" /\ workers[w].loop.i < workers[w].end_idx
          \/ /\ workers[w].pc = "fill" /\ workers[w].loop.i = workers[w].end_idx
             /\ (lang = "cs" \/ mutex = -1)
          \/ workers[w].pc = "merge" /\ mutex = w

\* where a step may leave the call: returned, or with a step to take, the
\* measure not below 0; once returned, the lock is free and every worker that
\* was started has merged
GoodState ==
    /\ pc = "done" \/ CanStep
    /\ Rank >= 0
    /\ pc = "done" =>
          /\ mutex = -1
          /\ \A w \in Workers : workers[w].pc \in {"idle", "done"}

\* C17: every step of every fill loop gets somewhere (a unit accepted, a pack
\* opened, the item left: packed, dropped or cut by the iteration ceiling);
\* every step of the call lowers a measure that never falls below 0, so no
\* run goes on for ever; and every step ends where pack_items has returned, the
\* lock free and every worker merged, or where some thread has a step to take
\* (no deadlock).
C17_Termination ==
    [][/\ FillProgress(seq, seq')
       /\ \A w \in Workers : FillProgress(workers[w].loop, workers'[w].loop)
       /\ Rank' < Rank
       /\ GoodState']_vars

\* a worker waits for the mutex the other holds, after a run cut by the
\* iteration ceiling
C17_Witness ==
    /\ \E w \in Workers :
          /\ workers[w].pc = "fill" /\ workers[w].loop.i = workers[w].end_idx
          /\ "max_iterations" \in workers[w].loop.events
    /\ mutex # -1

\* the threads that run a fill loop: the calling thread on the sequential
\* path, the worker threads created on the parallel path
WorkersUsed == IF TookSequentialPath THEN 1 ELSE spawned

\* C18: once pack_items has chosen its path, the thread count it works with is
\* between 1 and the maximum (32 in the source), it never creates more worker
\* threads than that, and the threads that have run a fill loop when it
\* returns are between 1 and the maximum: one on the sequential path, the
\* thread count on the parallel path.
C18_WorkerCountClamped ==
    pc # "call" =>
        /\ 1 <= m_num_threads /\ m_num_threads <= MaxThreads
        /\ spawned <= m_num_threads
        /\ \A w \in Workers : workers[w].pc # "idle" => w < m_num_threads
        /\ pc \in {"join", "done"} =>
              /\ 1 <= WorkersUsed /\ WorkersUsed <= MaxThreads
              /\ TookParallelPath => WorkersUsed = m_num_threads

\* the C++ strategy has returned from the parallel path with the maximum of
\* worker threads, each with packs of its own
C18_Witness ==
    /\ pc = "done" /\ TookParallelPath /\ lang = "cpp"
    /\ WorkersUsed = MaxThreads
    /\ \A w \in Workers : workers[w].loop.packs # <<>>

\* ceil(a / b) for a >= 0 and b > 0
CeilDiv(a, b) == (a + b - 1) \div b

\* a list of one item of positive quantity for which the item-count bound is
\* the binding one: max_items * w <= max_weight
SingleCountBoundItem ==
    /\ Len(items) = 1
    /\ items[1].quantity > 0
    /\ WLeq(WMul(NormMaxItems, items[1].weight), NormMaxWeight)

\* C19: for such a list the sequential path returns ceil(Q / max_items) packs,
\* each with one record of the item: max_items units in every pack but the
\* last, the rest in the last.
C19_CountBoundPackCount ==
    (pc = "done" /\ TookSequentialPath /\ SingleCountBoundItem) =>
        LET Q == items[1].quantity
            n == CeilDiv(Q, NormMaxItems)
        IN  /\ Len(returned) = n
            /\ \A k \in 1..Len(returned) :
                  /\ Len(returned[k].items) = 1
                  /\ returned[k].items[1].id = items[1].id
                  /\ returned[k].total_items =
                        (IF k < n THEN NormMaxItems ELSE Q - (n - 1) * NormMaxItems)

\* the workers inside the merge step
InMerge == {w \in Workers : workers[w].pc = "merge"}

\* who holds result_mutex: exactly the worker inside the merge step, if any
HolderIsMerger ==
    /\ Cardinality(InMerge) <= 1
    /\ mutex \in Workers \cup {-1}
    /\ \A w \in Workers : mutex = w <=> w \in InMerge

\* this step changes the shared result list, and it is the step of the
\* worker that holds result_mutex and is inside the merge step
MergeByHolder ==
    /\ mutex \in Workers
    /\ workers[mutex].pc = "merge"
    /\ workers'[mutex].pc = "done"
    /\ \A v \in Workers \ {mutex} : workers'[v] = workers[v]

\* this step is a step of w's fill loop (accept, or a pack number taken)
FillStepOf(w) ==
    \/ workers[w].pc = "start" /\ workers'[w].pc = "fill"
    \/ workers[w].pc = "fill" /\ workers'[w].loop # workers[w].loop

\* the three parts of the lock discipline, for one step
LockDisciplineStep ==
    /\ HolderIsMerger'
    /\ result_packs' # result_packs => MergeByHolder
    /\ \A w \in Workers : FillStepOf(w) => mutex # w /\ mutex' # w
    /\ next_pack_number' # next_pack_number =>
          pc' = "seq" \/ \E w \in Workers : FillStepOf(w)

\* this step is a C# worker adding its local packs to the bag: after its
\* fill loop, with no lock taken
AddWithoutLock ==
    /\ mutex = -1 /\ mutex' = -1
    /\ \E w \in Workers :
          /\ workers[w].pc = "fill" /\ workers[w].loop.i = workers[w].end_idx
          /\ workers'[w].pc = "done"
          /\ \A v \in Workers \ {w} : workers'[v] = workers[v]

C21_GlobalPackCap ==
    /\ Len(result_packs) <= max_total_packs
    /\ (pc = "done" /\ TookParallelPath) => Len(returned) <= max_total_packs

\* the item indices (0-based) of the range given to worker w
ChunkOf(w) == workers[w].start_idx .. (workers[w].end_idx - 1)

\* the size the claim gives to chunk i of t over n items
ChunkSize(n, t, i) == n \div t + (IF i < n % t THEN 1 ELSE 0)

\* C22: on the parallel path with n items and t workers the ranges given to
\* workers 0..t-1 are contiguous and pairwise disjoint, start at 0, end at n
\* and cover every item index exactly once; worker i gets floor(n/t)+1 items
\* if i < n mod t and floor(n/t) otherwise.  (Stated for the workers spawned
\* so far, and for all t once the spawn loop is over.)
C22_ChunkPartition ==
    (pc \in {"spawn", "join", "done"} /\ seq.packs = <<>>) =>
        LET n == Len(items)
            t == m_num_threads
            k == spawned
        IN  /\ k <= t
            /\ \A i \in 0..(k - 1) :
                  /\ workers[i].start_idx = (IF i = 0 THEN 0 ELSE workers[i - 1].end_idx)
                  /\ workers[i].end_idx - workers[i].start_idx = ChunkSize(n, t, i)
            /\ start_idx = (IF k = 0 THEN 0 ELSE workers[k - 1].end_idx)
            /\ \A i, j \in 0..(k - 1) : i # j => ChunkOf(i) \cap ChunkOf(j) = {}
            /\ pc # "spawn" =>
                  /\ k = t
                  /\ workers[t - 1].end_idx = n
                  /\ \A x \in 0..(n - 1) :
                        Cardinality({i \in 0..(t - 1) : x \in ChunkOf(i)}) = 1

\* C22 witness: a parallel run whose item count is not a multiple of the
\* worker count, all workers spawned
C22_Witness ==
    /\ pc = "join" /\ TookParallelPath
    /\ Len(items) % m_num_threads # 0
    /\ spawned = m_num_threads
    /\ workers[0].end_idx - workers[0].start_idx >
          workers[m_num_threads - 1].end_idx - workers[m_num_threads - 1].start_idx

\* max_safe_reserve of the sequential path for a list of m items
seq_reserve_for(m) == Min(SeqReserveCap, m \div SeqReserveDiv + SeqReserveBase)

\* what the sequential path can return, without the pack numbers, when it is
\* given only the items of worker w's chunk
SeqOnChunkContents(w) ==
    LET m == workers[w].end_idx - workers[w].start_idx
    IN  { Contents(R.packs) :
          R \in FillRuns(new_loop(workers[w].start_idx, 1), workers[w].end_idx,
                         NormMaxItems, NormMaxWeight, SeqMaxIterations,
                         seq_reserve_for(m)) }

\* every record of every local pack of w is of an item of w's chunk
OnlyOwnChunk(w) ==
    \A k \in 1..Len(workers[w].loop.packs) :
       \A r \in 1..Len(workers[w].loop.packs[k].items) :
          (workers[w].loop.packs[k].items[r].id - 1) \in ChunkOf(w)

\* worker w ended a for-loop item early at one of its safety ceilings
HitCeiling(w) == workers[w].loop.events \cap {"max_packs", "max_iterations"} # {}

\* C23 as stated: the local list of every worker is, up to the pack numbers,
\* what the sequential path returns for the items of the chunk alone, and no
\* local pack holds a record of another chunk's item.
C23_ChunkIsolation ==
    /\ \A w \in Workers : OnlyOwnChunk(w)
    /\ (pc = "done" /\ TookParallelPath) =>
          \A w \in Workers :
             w < m_num_threads =>
                Contents(workers[w].loop.packs) \in SeqOnChunkContents(w)

\* C23 (amended): the same, for the workers that reached neither their pack
\* ceiling nor their iteration ceiling; these are lower than the ceilings of
\* the sequential path.
C23_ChunkIsolationBelowCeilings ==
    /\ \A w \in Workers : OnlyOwnChunk(w)
    /\ (pc = "done" /\ TookParallelPath) =>
          \A w \in Workers :
             (w < m_num_threads /\ ~HitCeiling(w)) =>
                Contents(workers[w].loop.packs) \in SeqOnChunkContents(w)

\* C23 witness: two workers finished below their ceilings, each with records
\* of its own chunk, one of them with a second pack
C23_Witness ==
    /\ pc = "done" /\ TookParallelPath
    /\ \A w \in Workers :
          /\ w < m_num_threads /\ ~HitCeiling(w)
          /\ workers[w].loop.packs[1].items # <<>>
    /\ \E w \in Workers :
          /\ Len(workers[w].loop.packs) >= 2
          /\ workers[w].loop.packs[2].items # <<>>

\* from loop state L to L2 no pack but the last one of L has changed, and a
\* pack that is opened is appended, empty, behind an unchanged list
OnlyLastPackTouched(L, L2) ==
    L.packs # <<>> =>
        LET n == Len(L.packs)
        IN  /\ Len(L2.packs) \in {n, n + 1}
            /\ \A k \in 1..(n - 1) : L2.packs[k] = L.packs[k]
            /\ Len(L2.packs) = n + 1 =>
                  /\ L2.packs[n] = L.packs[n]
                  /\ is_empty(L2.packs[n + 1])

\* C24: every accept call of a fill loop goes to the most recently created
\* pack of that loop: once a pack has been opened, the records and aggregates
\* of the earlier packs of the same worker, or of the sequential run, never
\* change again.
C24_NoBacktracking ==
    [][/\ OnlyLastPackTouched(seq, seq')
       /\ \A w \in Workers : OnlyLastPackTouched(workers[w].loop, workers'[w].loop)]_vars

\* C24 witness: a fill loop has opened a second pack and put records into it
\* behind a first pack that holds records
C24_Witness ==
    \E L \in Loops :
       /\ Len(L.packs) >= 2
       /\ L.packs[1].items # <<>>
       /\ L.packs[Len(L.packs)].items # <<>>

\* what C25 says of a step from loop state L to L2 that opens a pack, the loop
\* running with constraints mi and mw
OpensPackAsClaimed(L, L2, mi, mw, sequential) ==
    (L.packs # <<>> /\ Len(L2.packs) = Len(L.packs) + 1) =>
        LET cur == L.packs[Len(L.packs)]
            new == L2.packs[Len(L2.packs)]
            it == items[L.i + 1]
        IN  /\ L2.call.made /\ L2.call.item = it.id /\ L2.call.ret = 0
            /\ L2.i = L.i /\ L2.remaining > 0
            /\ WLeq(it.weight, mw)
            /\ ~is_empty(cur)
            /\ \/ cur.total_items = mi
               \/ WLess(weight_remaining(cur, mw), it.weight)
            /\ is_empty(new) /\ new.pack_number = L2.pack_number
            /\ sequential => new.pack_number = cur.pack_number + 1

\* C25: a pack is opened only in the step in which accept on the current pack
\* returned 0 for the current item, the item's unit weight being <= max_weight
\* and the current pack non-empty; the current pack then holds max_items units
\* or has less weight capacity left than one unit weighs.  The new pack is the
\* current pack from then on and, on the sequential path, has the previous
\* pack's number plus 1.
C25_NewPackOnlyWhenFull ==
    [][/\ OpensPackAsClaimed(seq, seq', max_items, max_weight, TRUE)
       /\ \A w \in Workers :
             OpensPackAsClaimed(workers[w].loop, workers'[w].loop,
                                workers[w].max_items, workers[w].max_weight, FALSE)]_vars

\* C26: the empty-pack fallback is never taken: no fill loop, running with
\* normalized constraints, sees accept return 0 on an empty pack for an item
\* of quantity > 0 and unit weight <= max_weight, so no such item loses
\* quantity through that branch.
C26_EmptyPackFallbackUnreachable ==
    \A L \in Loops : "empty_pack" \notin L.events

\* what C27 says of a step of a fill loop from L to L2 under the ceiling
\* max_iterations: the calls made stay within the ceiling, and the step in
\* which the counter passes the ceiling makes no call, leaves every pack as it
\* is and goes on to the next item
CeilingStep(L, L2, max_iterations) ==
    /\ 0 <= L2.calls /\ L2.calls <= max_iterations
    /\ (L.packs # <<>> /\ L2.safety_counter # L.safety_counter) =>
          /\ L2.safety_counter = L.safety_counter + 1
          /\ IF L2.safety_counter > max_iterations
             THEN /\ L2.calls = L.calls
                  /\ L2.packs = L.packs
                  /\ L2.i = L.i + 1 /\ L2.remaining = 0
                  /\ "max_iterations" \in L2.events
                  /\ PackedQuantity(items[L.i + 1].id, L2.packs) < items[L.i + 1].quantity
             ELSE L2.calls = L.calls + 1

\* C27: one sequential run makes at most SeqMaxIterations (1,000,000) accept
\* calls and one worker at most WorkerMaxIterations (500,000); when the
\* counter exceeds the ceiling, the inner loop of the current item ends
\* without a call and the item's remaining quantity stays unpacked.
C27_IterationCeiling ==
    [][/\ CeilingStep(seq, seq', SeqMaxIterations)
       /\ \A w \in Workers :
             CeilingStep(workers[w].loop, workers'[w].loop, WorkerMaxIterations)]_vars

\* C27 witness: a sequential run that made SeqMaxIterations calls and then
\* left an item at the ceiling
C27_Witness ==
    /\ pc = "done" /\ TookSequentialPath
    /\ seq.calls = SeqMaxIterations /\ "max_iterations" \in seq.events

\* the same for a worker of a parallel run
C27_WorkerAtCeiling ==
    /\ pc = "done" /\ TookParallelPath
    /\ \E w \in Workers :
          /\ workers[w].loop.calls = WorkerMaxIterations
          /\ "max_iterations" \in workers[w].loop.events

\* what C28 says of a step of a fill loop from L to L2 under the pack ceiling
\* cap: the list stays within the ceiling, and an accept call that returns 0
\* when the list is at the ceiling opens no pack, drops the rest of the item
\* and goes on to the next item
PackCeilingStep(L, L2, cap) ==
    /\ Len(L2.packs) <= cap
    /\ (L.packs # <<>> /\ Len(L.packs) >= cap
          /\ L2.calls = L.calls + 1 /\ L2.call.ret = 0) =>
          /\ L2.packs = L.packs
          /\ L2.i = L.i + 1 /\ L2.remaining = 0
          /\ L2.events \cap {"too_heavy", "empty_pack", "max_packs"} # {}
          /\ PackedQuantity(items[L.i + 1].id, L2.packs) < items[L.i + 1].quantity

\* C28: a worker creates at most min(20000, chunk_size / 10 + 500) packs and
\* the sequential path at most min(100000, item_count / 10 + 1000); when the
\* ceiling is reached and the current pack cannot take the current item, the
\* item's remaining quantity is dropped, no pack is opened and the loop goes
\* on to the next item.
C28_PackCeiling ==
    [][/\ PackCeilingStep(seq, seq', seq_max_safe_reserve)
       /\ \A w \in Workers :
             PackCeilingStep(workers[w].loop, workers'[w].loop,
                             worker_max_safe_reserve(workers[w].start_idx,
                                                     workers[w].end_idx))]_vars

\* C28 witness: a worker whose list is at its ceiling has dropped the rest of
\* an item there, and has gone on
C28_Witness ==
    \E w \in Workers :
       /\ workers[w].pc = "done"
       /\ "max_packs" \in workers[w].loop.events
       /\ Len(workers[w].loop.packs) =
             worker_max_safe_reserve(workers[w].start_idx, workers[w].end_idx)
       /\ workers[w].loop.i = workers[w].end_idx

\* the same for the sequential path
C28_SeqAtCeiling ==
    /\ pc = "done" /\ TookSequentialPath
    /\ "max_packs" \in seq.events
    /\ Len(seq.packs) = seq_max_safe_reserve

\* the packs of a list that hold a record of item id
PacksWith(id, packs) ==
    { k \in 1..Len(packs) :
         \E r \in 1..Len(packs[k].items) : packs[k].items[r].id = id }

\* a list of packs holds no more of any item than its quantity, and no record
\* of an item of quantity <= 0
ListWithinQuantity(packs) ==
    \A i \in 1..Len(items) :
       LET packed == PackedQuantity(items[i].id, packs)
       IN  /\ 0 <= packed
           /\ packed <= Max(0, items[i].quantity)
           /\ items[i].quantity <= 0 => PacksWith(items[i].id, packs) = {}

\* this holds of every list of packs there is (of the sequential loop, of each
\* worker, the shared result, the returned list), and no item has records
\* with two workers
WithinQuantity ==
    /\ ListWithinQuantity(seq.packs)
    /\ \A w \in Workers : ListWithinQuantity(workers[w].loop.packs)
    /\ ListWithinQuantity(result_packs)
    /\ ListWithinQuantity(returned)
    /\ \A i \in 1..Len(items) :
          \A w, v \in Workers :
             (PacksWith(items[i].id, workers[w].loop.packs) # {}
                /\ PacksWith(items[i].id, workers[v].loop.packs) # {}) => w = v

\* a step of a fill loop from L to L2 that leaves an item of quantity <= 0
\* makes no call and changes no pack
SkipsUntouched(L, L2) ==
    (L.packs # <<>> /\ L2.i = L.i + 1 /\ items[L.i + 1].quantity <= 0) =>
        /\ L2.packs = L.packs
        /\ L2.calls = L.calls

\* C29: for every input item the quantities of its records over the output
\* packs sum to at least 0 and at most max(0, quantity), on both paths, with
\* or without a ceiling hit, in every interleaving; an item of quantity <= 0
\* is skipped without a record and without a new pack; no item is packed by
\* two workers.
C29_NoOverPacking ==
    /\ []WithinQuantity
    /\ [][/\ SkipsUntouched(seq, seq')
          /\ \A w \in Workers : SkipsUntouched(workers[w].loop, workers'[w].loop)]_vars

\* C29 witness: a parallel run has returned; one item was skipped, one is
\* packed whole over two packs and one only in part
C29_Witness ==
    /\ pc = "done" /\ TookParallelPath
    /\ \E i, j, k \in 1..Len(items) :
          /\ items[i].quantity <= 0
          /\ PackedQuantity(items[j].id, returned) = items[j].quantity
          /\ Cardinality(PacksWith(items[j].id, returned)) >= 2
          /\ 0 < PackedQuantity(items[k].id, returned)
          /\ PackedQuantity(items[k].id, returned) < items[k].quantity

\* the numbers of the packs of a list
NumbersOf(packs) == {packs[k].pack_number : k \in 1..Len(packs)}

\* worker w has a pack of its local list in the returned list
Contributes(w) == NumbersOf(workers[w].loop.packs) \cap NumbersOf(returned) # {}

\* no unit of any item is in the returned packs
NothingPacked == \A i \in 1..Len(items) : PackedQuantity(items[i].id, returned) = 0

\* what C30 says of the sequential path, and of the local lists of the
\* workers: the returned list is never empty; it is the single empty pack 1
\* when nothing was packed; a worker has its first pack before it looks at an
\* item
AtLeastOnePack ==
    /\ pc = "done" => Len(returned) >= 1
    /\ (pc = "done" /\ TookSequentialPath /\ NothingPacked) => returned = <<new_pack(1)>>
    /\ \A w \in Workers :
          workers[w].pc \in {"fill", "merge", "done"} =>
             /\ Len(workers[w].loop.packs) >= 1
             /\ workers[w].loop.calls = 0 =>
                   workers[w].loop.packs = <<new_pack(workers[w].loop.pack_number)>>

\* C30 as stated: pack_items returns at least one pack; the sequential path
\* returns exactly the empty pack 1 for a list that is empty or whose items
\* are all skipped or dropped; every worker creates its first pack before it
\* looks at an item and so contributes at least one pack to the result.
C30_AtLeastOnePack ==
    /\ AtLeastOnePack
    /\ (pc = "done" /\ TookParallelPath) =>
          \A w \in Workers : w < m_num_threads => Contributes(w)

\* C30 (amended): the same, except that a C++ worker that reaches the merge
\* when the shared result already holds max_total_packs packs contributes
\* none.
C30_AtLeastOnePackUnderCap ==
    /\ AtLeastOnePack
    /\ (pc = "done" /\ TookParallelPath) =>
          \A w \in Workers :
             w < m_num_threads =>
                \/ Contributes(w)
                \/ lang = "cpp" /\ Len(returned) = max_total_packs

\* C30 witness: a parallel run has returned; one worker's chunk gave no record
\* and its single empty pack is in the result beside another worker's packs
\* with records
C30_Witness ==
    /\ pc = "done" /\ TookParallelPath
    /\ \A w \in Workers : w < m_num_threads /\ Contributes(w)
    /\ \E w \in Workers :
          /\ workers[w].loop.packs = <<new_pack(workers[w].loop.pack_number)>>
          /\ workers[w].end_idx > workers[w].start_idx
    /\ ~NothingPacked

\* a sequential run over a non-empty list has returned the single empty pack
C30_SeqNothingPacked ==
    /\ pc = "done" /\ TookSequentialPath /\ NothingPacked
    /\ Len(items) >= 2
    /\ \E i \in 1..Len(items) : items[i].quantity > 0

\* C31: in the pack list of the sequential path and in every worker's local
\* list, in every reachable state, every pack but the last one created holds
\* at least one record: only the most recently created pack can be empty.
C31_OnlyLastPackEmpty ==
    \A L \in Loops :
       \A k \in 1..(Len(L.packs) - 1) :
          /\ ~is_empty(L.packs[k])
          /\ L.packs[k].total_items >= 1

\* C31 witness: a fill loop whose last pack is empty behind two packs that
\* hold records
C31_Witness ==
    \E L \in Loops :
       /\ Len(L.packs) >= 3
       /\ is_empty(L.packs[Len(L.packs)])
       /\ ~is_empty(L.packs[1]) /\ ~is_empty(L.packs[2])

\* the numbers of the packs the workers have created so far
WorkerNumbers == UNION {NumbersOf(workers[w].loop.packs) : w \in Workers}

\* C32: on the parallel path every value taken from the shared counter is the
\* number of exactly one created pack, the numbers of each worker's local
\* list increase strictly in creation order, and the counter is always 1 plus
\* the number of packs created so far by all workers; so when the cap of the
\* merge cuts off no pack, the numbers of the returned list are exactly 1..K,
\* K being the number of returned packs, in every interleaving.
C32_CounterNumbersPacks ==
    seq.packs = <<>> =>
        /\ next_pack_number = 1 + PacksCreated(Workers)
        /\ WorkerNumbers = 1..(next_pack_number - 1)
        /\ Cardinality(WorkerNumbers) = PacksCreated(Workers)
        /\ \A w \in Workers :
              \A k \in 1..(Len(workers[w].loop.packs) - 1) :
                 workers[w].loop.packs[k].pack_number
                    < workers[w].loop.packs[k + 1].pack_number
        /\ (pc = "done" /\ Len(returned) = PacksCreated(Workers)) =>
              NumbersOf(returned) = 1..Len(returned)

\* C32 witness: a parallel run has returned every pack created; the workers
\* took their numbers in turns, so one local list skips a number
C32_Witness ==
    /\ pc = "done" /\ TookParallelPath
    /\ Len(returned) = PacksCreated(Workers)
    /\ Len(returned) >= 3
    /\ \E w \in Workers :
          /\ Len(workers[w].loop.packs) >= 2
          /\ workers[w].loop.packs[2].pack_number
                > workers[w].loop.packs[1].pack_number + 1

\* what C33 says of a step of a fill loop from L to L2 under the ceiling
\* max_iterations: the counter never goes down, and once it is above the
\* ceiling a step makes no call, appends no record, opens no pack and leaves
\* the item it is at without any of its quantity packed
AfterCeilingStep(L, L2, max_iterations) ==
    (L.packs # <<>> /\ L2 # L) =>
        /\ L2.safety_counter >= L.safety_counter
        /\ L.safety_counter > max_iterations =>
              /\ L2.calls = L.calls
              /\ L2.packs = L.packs
              /\ L2.i = L.i + 1 /\ L2.remaining = 0
              /\ PackedQuantity(items[L.i + 1].id, L2.packs) = 0

\* C33: once the iteration counter of a fill loop has exceeded its ceiling it
\* is never reset, and until the loop ends no accept call is made: no record
\* is appended, no pack is opened, and every later item of the run, or of the
\* worker's chunk, loses its whole quantity.
C33_CeilingIsFinal ==
    [][/\ AfterCeilingStep(seq, seq', SeqMaxIterations)
       /\ \A w \in Workers :
             AfterCeilingStep(workers[w].loop, workers'[w].loop, WorkerMaxIterations)]_vars

\* C33 witness: a sequential run ended with an item of positive quantity that
\* came after the ceiling was passed and has no record
C33_Witness ==
    /\ pc = "done" /\ TookSequentialPath
    /\ seq.safety_counter >= SeqMaxIterations + 2
    /\ items[Len(items)].quantity > 0
    /\ PackedQuantity(items[Len(items)].id, returned) = 0

\* the same for a worker of a parallel run
C33_WorkerPastCeiling ==
    /\ pc = "done" /\ TookParallelPath
    /\ \E w \in Workers :
          /\ workers[w].loop.safety_counter >= WorkerMaxIterations + 2
          /\ items[workers[w].end_idx].quantity > 0
          /\ PackedQuantity(items[workers[w].end_idx].id, returned) = 0

\* the last call on p was an add_item call
LastWasAddItem == call.made /\ "item" \in DOMAIN call

\* C34: after any sequence of add_item and add_partial_item calls on a pack
\* every record has quantity >= 1 and total_items >= 0; add_item either
\* appends the whole item and returns true, or returns false and leaves the
\* pack unchanged.
C34_RecordsPositive ==
    /\ \A r \in 1..Len(p.items) : p.items[r].quantity >= 1
    /\ p.total_items >= 0
    /\ LastWasAddItem =>
          IF call.ret
          THEN /\ p.items = Append(call.before.items, call.item)
               /\ p.total_items = call.before.total_items + call.item.quantity
          ELSE p = call.before

=============================================================================
